---------------------------- MODULE Spec2Model ----------------------------
(***************************************************************************)
(* context-menu-manager (src/main.go): a manifest tree of menu entries is  *)
(* written into the registry below                                         *)
(*   HKCU\Software\Classes\Directory\Background\shell                      *)
(* by createContextMenu, which erases each entry's key with                *)
(* deleteRegKeyRecursive, recreates it and sets its values.                *)
(*                                                                         *)
(* Strings of the program are sequences of one-character strings, so that  *)
(* substitution, quoting and joining are computed and not assumed.         *)
(* Registry paths are sequences of key names relative to the fixed prefix; *)
(* an identifier of the manifest is one key name (it holds no backslash,   *)
(* and two sibling identifiers do not differ in letter case only).         *)
(***************************************************************************)
EXTENDS Naturals, Integers, Sequences, FiniteSets, TLC

VARIABLES
    reg,        \* the registry below the prefix: [keys, vals]
    proc,       \* per process: status, call stack, returned error, helper cache
    env,        \* what the helper lookup sees: [cwdOk, exeOk, files]
    faulty,     \* the registry may still reject one call of this behaviour
    runNo,      \* how many runs of the program have started
    proj,       \* the attribute projections called apart from an install: the
                \* ContextMenu and directory they are called with, their results
    hist        \* the record of the current run that the properties refer to
                \* (never read by the program): the registry it started on, the
                \* keys and values it has created, the entries it has worked on
                \* and finished, where it failed, what another agent took from
                \* it, and the run before it

vars == <<reg, proc, env, faulty, runNo, proj, hist>>

\* How many runs of the program follow one another in one behaviour.
MaxRuns == 2

-----------------------------------------------------------------------------
(* Strings                                                                 *)

RECURSIVE ReplaceAll(_, _, _)
\* strings.ReplaceAll(s, old, new) for a non-empty old.
ReplaceAll(s, old, new) ==
    IF Len(s) < Len(old) THEN s
    ELSE IF SubSeq(s, 1, Len(old)) = old
         THEN new \o ReplaceAll(SubSeq(s, Len(old) + 1, Len(s)), old, new)
         ELSE <<s[1]>> \o ReplaceAll(Tail(s), old, new)

\* strings.ContainsAny(s, chars)
ContainsAny(s, chars) == \E i \in 1..Len(s) : \E j \in 1..Len(chars) : s[i] = chars[j]

RECURSIVE Join(_, _)
\* strings.Join(parts, sep)
Join(parts, sep) ==
    IF parts = <<>> THEN <<>>
    ELSE IF Len(parts) = 1 THEN parts[1]
    ELSE parts[1] \o sep \o Join(Tail(parts), sep)

Digit(d) == <<"0", "1", "2", "3", "4", "5", "6", "7", "8", "9">>[d + 1]

RECURSIVE Itoa(_)
\* the %d verb of fmt.Sprintf
Itoa(n) ==
    IF n < 0 THEN <<"-">> \o Itoa(0 - n)
    ELSE IF n < 10 THEN <<Digit(n)>>
    ELSE Itoa(n \div 10) \o <<Digit(n % 10)>>

\* filepath.Join of two or three clean elements
PathJoin(a, b) == a \o <<"\\">> \o b

quoteWindowsPath(path) == <<"\"">> \o path \o <<"\"">>

Placeholder == <<"$", "{", "m", "a", "n", "i", "f", "e", "s", "t", "F", "o", "l", "d", "e", "r", "}">>

\* filepath.Dir(manifestPath), the working directory: C:\menu
manifestDir == <<"C", ":", "\\", "m", "e", "n", "u">>

\* os.Getwd(): C:\menu, and the directory of os.Executable(): C:\app
Cwd == <<"C", ":", "\\", "m", "e", "n", "u">>
ExeDir == <<"C", ":", "\\", "a", "p", "p">>
nircmdFilename == <<"n", "i", "r", "c", "m", "d", ".", "e", "x", "e">>
BinDir == <<"b", "i", "n">>
\* what exec.LookPath answers when the helper is on the search path
LookPathHit == <<"C", ":", "\\", "b", "i", "n", "\\", "n", "i", "r", "c", "m", "d", ".", "e", "x", "e">>

-----------------------------------------------------------------------------
(* Attribute projection                                                    *)

\* Mutant of Icon: the index is tested for being non-zero, not for being there.
IconIndexNonZero(c, dir) ==
    IF c.IconPath = <<>> THEN <<>>
    ELSE LET quoted == quoteWindowsPath(ReplaceAll(c.IconPath, Placeholder, dir))
         IN  IF c.IconIndex # <<>> /\ c.IconIndex[1] # 0
             THEN quoted \o <<",">> \o Itoa(c.IconIndex[1])
             ELSE quoted

\* ContextMenu.Icon; IconIndex is <<>> (nil) or <<n>>.
Icon(c, dir) ==
    IF c.IconPath = <<>> THEN <<>>
    ELSE LET quoted == quoteWindowsPath(ReplaceAll(c.IconPath, Placeholder, dir))
         IN  IF c.IconIndex # <<>>
             THEN quoted \o <<",">> \o Itoa(c.IconIndex[1])
             ELSE quoted

\* The candidates findNircmd probes, in its order; candidate 5 is the search path.
Candidate(i) ==
    CASE i = 1 -> PathJoin(Cwd, nircmdFilename)
      [] i = 2 -> PathJoin(PathJoin(Cwd, BinDir), nircmdFilename)
      [] i = 3 -> PathJoin(ExeDir, nircmdFilename)
      [] i = 4 -> PathJoin(PathJoin(ExeDir, BinDir), nircmdFilename)
      [] OTHER -> LookPathHit

\* The candidates a lookup gets to probe: 1, 2 need os.Getwd, 3, 4 os.Executable.
Probed(e) ==
    (IF e.cwdOk THEN {1, 2} ELSE {}) \cup (IF e.exeOk THEN {3, 4} ELSE {}) \cup {5}

Min(S) == CHOOSE x \in S : \A y \in S : x <= y

\* What exec.LookPath answers when the name resolves only relative to the
\* current directory (a relative entry t of the search path): since Go 1.19
\* the path comes with the error ErrDot.
LookPathDot == <<"t", "\\", "n", "i", "r", "c", "m", "d", ".", "e", "x", "e">>

\* exec.LookPath(nircmdFilename): [path, ok]; 5 in e.files says the helper is in
\* a directory of the search path, 6 that the search resolves it relative to
\* the current directory first.
LookPath(e) ==
    IF 6 \in e.files THEN [path |-> LookPathDot, ok |-> FALSE]
    ELSE IF 5 \in e.files THEN [path |-> LookPathHit, ok |-> TRUE]
    ELSE [path |-> <<>>, ok |-> FALSE]

\* findNircmd: [path, found, cache], cache being _nircmdPath as the call leaves
\* it: the deferred function of lines 149-151 stores nircmdPath on every
\* return but the cached one, the failing return of line 176 included.
findNircmd(cache, e) ==
    IF cache # <<>> THEN [path |-> cache, found |-> TRUE, cache |-> cache]
    ELSE LET hits == (Probed(e) \ {5}) \cap e.files
             lp == LookPath(e)
         IN  IF hits # {}
             THEN [path |-> Candidate(Min(hits)), found |-> TRUE,
                   cache |-> Candidate(Min(hits))]
             ELSE [path |-> lp.path, found |-> lp.ok, cache |-> lp.path]

\* Mutant of CommandParts: every token is put in double quotes.
CommandPartsQuoteAll(command, dir) ==
    [i \in 1..Len(command) |->
        quoteWindowsPath(ReplaceAll(command[i], Placeholder, dir))]

\* Mutant of CommandParts: the token is tested for a space or percent
\* character before the placeholder is replaced.
CommandPartsTestRaw(command, dir) ==
    [i \in 1..Len(command) |->
        LET part == ReplaceAll(command[i], Placeholder, dir)
        IN  IF ContainsAny(command[i], <<" ", "%">>) THEN quoteWindowsPath(part) ELSE part]

\* The loop of CommandString over c.Command.
CommandParts(command, dir) ==
    [i \in 1..Len(command) |->
        LET part == ReplaceAll(command[i], Placeholder, dir)
        IN  IF ContainsAny(part, <<" ", "%">>) THEN quoteWindowsPath(part) ELSE part]

Elevate == <<"e", "l", "e", "v", "a", "t", "e">>

\* Mutant of CommandString: the helper path is not put in double quotes.
CommandStringBareHelper(c, dir, nircmdPath) ==
    Join((IF c.Admin THEN <<nircmdPath, Elevate>> ELSE <<>>)
            \o CommandParts(c.Command, dir),
         <<" ">>)

\* ContextMenu.CommandString once findNircmd has answered nircmdPath.
CommandString(c, dir, nircmdPath) ==
    Join((IF c.Admin THEN <<quoteWindowsPath(nircmdPath), Elevate>> ELSE <<>>)
            \o CommandParts(c.Command, dir),
         <<" ">>)

-----------------------------------------------------------------------------
(* The registry adapter (golang.org/x/sys/windows/registry)                *)
(*                                                                         *)
(* reg.keys is the set of existing key paths, reg.vals the set of values   *)
(* [key, name, kind, data].  A handle is [p, live]: the path it was opened *)
(* at, and whether that key still exists (a call through the handle of a   *)
(* deleted key fails with ERROR_KEY_DELETED).                              *)

\* registry.CURRENT_USER followed by the prefix of line 21
Root == [p |-> <<>>, live |-> TRUE]
\* the zero registry.Key
emptyKey == [p |-> <<>>, live |-> FALSE]

Prefixes(path) == {SubSeq(path, 1, n) : n \in 1..Len(path)}
IsUnder(q, path) == Len(q) >= Len(path) /\ SubSeq(q, 1, Len(path)) = path
SubKeys(r, path) == {q \in r.keys : Len(q) = Len(path) + 1 /\ IsUnder(q, path)}

\* The error values of the adapter; ENOENT is ERROR_FILE_NOT_FOUND.
ENOENT == <<[msg |-> "ERROR_FILE_NOT_FOUND", arg |-> <<>>]>>
EACCES == <<[msg |-> "ERROR_ACCESS_DENIED", arg |-> <<>>]>>
EKEYDELETED == <<[msg |-> "ERROR_KEY_DELETED", arg |-> <<>>]>>
nil == <<>>

\* fmt.Errorf("<msg> %q: %w", arg, err)
Errorf(msg, arg, err) == <<[msg |-> msg, arg |-> arg]>> \o err

\* What a call answers: the error, the registry after it, and what it did.
Answer(err, r, made, wrote, deleted) ==
    [err |-> err, reg |-> r, made |-> made, wrote |-> wrote, deleted |-> deleted]
Unchanged(err, r) == Answer(err, r, {}, {}, {})

\* registry.OpenKey(k, path, ALL_ACCESS)
OpenKey(r, k, path, fail) ==
    IF ~k.live THEN Unchanged(EKEYDELETED, r)
    ELSE IF (k.p \o path) \notin r.keys THEN Unchanged(ENOENT, r)
    ELSE IF fail THEN Unchanged(EACCES, r)
    ELSE Unchanged(nil, r)

\* key.ReadSubKeyNames(0): the names come in the order ord of the registry.
ReadSubKeyNames(r, key, fail, ord) ==
    IF ~key.live THEN [err |-> EKEYDELETED, names |-> <<>>]
    ELSE IF fail THEN [err |-> EACCES, names |-> <<>>]
    ELSE [err |-> nil, names |-> ord]

\* registry.DeleteKey(k, path): a key that has subkeys is not deleted.
DeleteKey(r, k, path, fail) ==
    LET q == k.p \o path
    IN  IF ~k.live THEN Unchanged(EKEYDELETED, r)
        ELSE IF q \notin r.keys THEN Unchanged(ENOENT, r)
        ELSE IF fail \/ SubKeys(r, q) # {} THEN Unchanged(EACCES, r)
        ELSE Answer(nil, [keys |-> r.keys \ {q},
                          vals |-> {v \in r.vals : v.key # q}], {}, {}, {q})

\* registry.CreateKey(CURRENT_USER, path, ALL_ACCESS): missing segments are
\* created, an existing key is opened as it is.
CreateKey(r, path, fail) ==
    IF fail THEN Unchanged(EACCES, r)
    ELSE Answer(nil, [keys |-> r.keys \cup Prefixes(path), vals |-> r.vals],
                Prefixes(path) \ r.keys, {}, {})

\* key.SetStringValue / key.SetExpandStringValue
SetValue(r, key, name, kind, data, fail) ==
    IF ~key.live \/ key.p \notin r.keys THEN Unchanged(EKEYDELETED, r)
    ELSE IF fail THEN Unchanged(EACCES, r)
    ELSE Answer(nil,
                [keys |-> r.keys,
                 vals |-> {v \in r.vals : ~(v.key = key.p /\ v.name = name)}
                          \cup {[key |-> key.p, name |-> name, kind |-> kind, data |-> data]}],
                {}, {[key |-> key.p, name |-> name]}, {})

-----------------------------------------------------------------------------
(* The call stack                                                          *)
(*                                                                         *)
(* A frame is one activation of run, createContextMenu ("ccm") or          *)
(* deleteRegKeyRecursive ("del"); pc names the registry call it makes      *)
(* next, or the call it waits in.  rest is what a range loop has left, its *)
(* head being the entry in work (Go ranges over a map in an order of its   *)
(* own: the order of the sequence is that order).                          *)

\* The zero ContextMenu.
NoItem ==
    [Type |-> "", Title |-> <<>>, IconPath |-> <<>>, IconIndex |-> <<>>,
     Extended |-> FALSE, Admin |-> FALSE, Command |-> <<>>, Items |-> <<>>]

ContextMenuType_Item == "item"
ContextMenuType_Folder == "folder"

RunFrame(items) ==
    [fn |-> "run", pc |-> "loop", parent |-> <<>>, id |-> "", item |-> NoItem,
     rest |-> items, k |-> emptyKey, path |-> <<>>, names |-> <<>>, key |-> emptyKey]

CcmFrame(parent, id, item) ==
    [fn |-> "ccm", pc |-> "erase", parent |-> parent, id |-> id, item |-> item,
     rest |-> <<>>, k |-> emptyKey, path |-> <<>>, names |-> <<>>, key |-> emptyKey]

DelFrame(k, path) ==
    [fn |-> "del", pc |-> "open", parent |-> <<>>, id |-> "", item |-> NoItem,
     rest |-> <<>>, k |-> k, path |-> path, names |-> <<>>, key |-> emptyKey]

Top(st) == st[Len(st)]
Below(st) == SubSeq(st, 1, Len(st) - 1)
SetTop(st, f) == [st EXCEPT ![Len(st)] = f]

\* keyPath of line 21, without the prefix
KeyPath(f) == Append(f.parent, f.id)
\* the path a del frame works on, from the prefix
AbsPath(f) == f.k.p \o f.path

\* What a step leaves of the control state.
Ctl(st, status, err, done) == [stack |-> st, status |-> status, err |-> err, done |-> done]
Going(st, done) == Ctl(st, "running", nil, done)

\* The call deleteRegKeyRecursive(k, path) of lines 23, 70 and 266.
CallDel(st, k, path) == Append(st, DelFrame(k, path))

\* Mutant of EraseFirst: the key is created without being erased first.
EraseNothing(st, keyPath) == SetTop(st, [Top(st) EXCEPT !.pc = "create"])

\* Mutant of EraseFirst: the erase takes the parent path for keyPath, so that an
\* entry wipes the siblings installed before it.
EraseParent(st, keyPath) == CallDel(st, Root, SubSeq(keyPath, 1, Len(keyPath) - 1))

\* Line 23: what createContextMenu does first with keyPath.
EraseFirst(st, keyPath) == CallDel(st, Root, keyPath)

\* The call createContextMenu(parent, id, item, manifestDir) of lines 63 and 105.
CallCcm(st, parent, id, item) ==
    EraseFirst(Append(st, CcmFrame(parent, id, item)), Append(parent, id))

\* Mutant of ChildParent: the children are put below the folder's own key.
ChildParentNoShell(f) == KeyPath(f)

\* Line 63: the parent path of the children of folder frame f.
ChildParent(f) == Append(KeyPath(f), "shell")

RECURSIVE Resume(_, _, _)

\* Mutant of OnLoopError: the loop drops the error and goes on to the next entry.
OnLoopErrorContinue(st, err, done) == Resume(st, nil, done)

\* Lines 64-65 and 106-107: createContextMenu has returned err to the range
\* loop of frame Top(st), which wraps it and returns.
OnLoopError(st, err, done) ==
    Resume(Below(st),
           Errorf("failed to create context menu ID", <<Top(st).rest[1].id>>, err), done)

\* Mutant of OnSubkeyError: the range drops the error and goes on to the next
\* subkey.
OnSubkeyErrorContinue(st, err, done) == Resume(st, nil, done)

\* Lines 266-269: the erase of a subkey has returned err to the range of frame
\* Top(st), which wraps it and returns.
OnSubkeyError(st, err, done) ==
    Resume(Below(st),
           Errorf("deleteRegKeyRecursive failed to delete subkey of path",
                  AbsPath(Top(st)) \o <<Top(st).names[1]>>, err), done)

\* The callee on top of st has returned err: the caller goes on to its next
\* registry call, or returns itself.  done collects the entries whose
\* createContextMenu has returned nil.
Resume(st, err, done) ==
    IF st = <<>>
    THEN Ctl(<<>>, IF err = nil THEN "ok" ELSE "err", err, done)
    ELSE
      LET f == Top(st) IN
      IF f.fn = "del" THEN
        \* lines 265-272
        IF err # nil
        THEN OnSubkeyError(st, err, done)
        ELSE IF Len(f.names) > 1
        THEN Going(CallDel(SetTop(st, [f EXCEPT !.names = Tail(@)]),
                           f.key, <<f.names[2]>>), done)
        ELSE Going(SetTop(st, [f EXCEPT !.names = <<>>, !.pc = "delete",
                                        !.key = emptyKey]), done)
      ELSE IF f.fn = "ccm" /\ f.pc = "erase" THEN
        \* lines 23-26
        IF err # nil
        THEN Resume(Below(st), Errorf("failed to delete registry key", KeyPath(f), err), done)
        ELSE Going(SetTop(st, [f EXCEPT !.pc = "create"]), done)
      ELSE IF f.fn = "ccm" /\ f.pc = "cmderase" THEN
        \* lines 70-73
        IF err # nil
        THEN Resume(Below(st),
                    Errorf("failed to delete registry key",
                           Append(KeyPath(f), "command"), err), done)
        ELSE Going(SetTop(st, [f EXCEPT !.pc = "cmdcreate"]), done)
      ELSE
        \* the range loops of lines 62-67 (ccm) and 104-109 (run)
        IF err # nil
        THEN OnLoopError(st, err, done)
        ELSE IF Len(f.rest) > 1
        THEN Going(CallCcm(SetTop(st, [f EXCEPT !.rest = Tail(@)]),
                           IF f.fn = "run" THEN <<>> ELSE ChildParent(f),
                           f.rest[2].id, f.rest[2].item), done)
        ELSE IF f.fn = "run" THEN Resume(Below(st), nil, done)
        ELSE Resume(Below(st), nil, Append(done, KeyPath(f)))

\* Line 62 for the first child, or line 83 when the folder has none.
EnterLoop(st) ==
    LET f == Top(st) IN
    IF f.item.Items = <<>>
    THEN Resume(Below(st), nil, <<KeyPath(f)>>)
    ELSE Going(CallCcm(SetTop(st, [f EXCEPT !.pc = "loop", !.rest = f.item.Items]),
                       ChildParent(f),
                       f.item.Items[1].id, f.item.Items[1].item), <<>>)

\* run, lines 104-110, once the manifest is read.
run(tree) ==
    IF tree = <<>> THEN Ctl(<<>>, "ok", nil, <<>>)
    ELSE Going(CallCcm(<<RunFrame(tree)>>, <<>>, tree[1].id, tree[1].item), <<>>)

-----------------------------------------------------------------------------
(* The steps: one registry call each, with what the caller does about its  *)
(* answer up to the next registry call.                                    *)

\* A step's outcome: the adapter's answer a, the control state c, the cache.
Out(a, c, cache) ==
    [errno |-> a.err, reg |-> a.reg, made |-> a.made, wrote |-> a.wrote,
     deleted |-> a.deleted, stack |-> c.stack, status |-> c.status, err |-> c.err, done |-> c.done,
     cache |-> cache]

\* Mutant of DelOpen: a missing key is an error like any other.
DelOpenStrict(r, st, cache, fail) ==
    LET f == Top(st)
        a == OpenKey(r, f.k, f.path, fail)
    IN  IF a.err # nil
        THEN Out(a, Resume(Below(st),
                           Errorf("deleteRegKeyRecursive failed to open key path",
                                  AbsPath(f), a.err), <<>>), cache)
        ELSE Out(a, Going(SetTop(st, [f EXCEPT !.pc = "enum",
                                               !.key = [p |-> AbsPath(f), live |-> TRUE]]),
                          <<>>), cache)

\* deleteRegKeyRecursive, lines 248-255: open the key, a missing key is success.
DelOpen(r, st, cache, fail) ==
    LET f == Top(st)
        a == OpenKey(r, f.k, f.path, fail)
    IN  IF a.err = ENOENT THEN Out(a, Resume(Below(st), nil, <<>>), cache)
        ELSE IF a.err # nil
        THEN Out(a, Resume(Below(st),
                           Errorf("deleteRegKeyRecursive failed to open key path",
                                  AbsPath(f), a.err), <<>>), cache)
        ELSE Out(a, Going(SetTop(st, [f EXCEPT !.pc = "enum",
                                               !.key = [p |-> AbsPath(f), live |-> TRUE]]),
                          <<>>), cache)

\* Mutant of DelEnum: the subkeys are not erased before the key is deleted.
DelEnumNoRecursion(r, st, cache, fail, ord) ==
    LET f == Top(st)
        a == ReadSubKeyNames(r, f.key, fail, ord)
    IN  IF a.err # nil
        THEN Out(Unchanged(a.err, r),
                 Resume(Below(st),
                        Errorf("deleteRegKeyRecursive failed to get subkeys of path",
                               AbsPath(f), a.err), <<>>), cache)
        ELSE Out(Unchanged(nil, r),
                 Going(SetTop(st, [f EXCEPT !.pc = "delete", !.key = emptyKey]), <<>>),
                 cache)

\* Mutant of DelEnum: the range over the subkeys starts at the second name.
DelEnumSkipFirst(r, st, cache, fail, ord) ==
    LET f == Top(st)
        a == ReadSubKeyNames(r, f.key, fail, ord)
    IN  IF a.err # nil
        THEN Out(Unchanged(a.err, r),
                 Resume(Below(st),
                        Errorf("deleteRegKeyRecursive failed to get subkeys of path",
                               AbsPath(f), a.err), <<>>), cache)
        ELSE IF Len(a.names) <= 1
        THEN Out(Unchanged(nil, r),
                 Going(SetTop(st, [f EXCEPT !.pc = "delete", !.key = emptyKey]), <<>>),
                 cache)
        ELSE Out(Unchanged(nil, r),
                 Going(CallDel(SetTop(st, [f EXCEPT !.pc = "loop", !.names = Tail(a.names)]),
                               f.key, <<a.names[2]>>), <<>>), cache)

\* deleteRegKeyRecursive, lines 261-266 (and 271-272 when there is no subkey).
DelEnum(r, st, cache, fail, ord) ==
    LET f == Top(st)
        a == ReadSubKeyNames(r, f.key, fail, ord)
    IN  IF a.err # nil
        THEN Out(Unchanged(a.err, r),
                 Resume(Below(st),
                        Errorf("deleteRegKeyRecursive failed to get subkeys of path",
                               AbsPath(f), a.err), <<>>), cache)
        ELSE IF a.names = <<>>
        THEN Out(Unchanged(nil, r),
                 Going(SetTop(st, [f EXCEPT !.pc = "delete", !.key = emptyKey]), <<>>),
                 cache)
        ELSE Out(Unchanged(nil, r),
                 Going(CallDel(SetTop(st, [f EXCEPT !.pc = "loop", !.names = a.names]),
                               f.key, <<a.names[1]>>), <<>>), cache)

\* Mutant of DelDelete: a key that is gone at registry.DeleteKey is an error
\* like any other.
DelDeleteStrict(r, st, cache, fail) ==
    LET f == Top(st)
        a == DeleteKey(r, f.k, f.path, fail)
    IN  IF a.err = nil
        THEN Out(a, Resume(Below(st), nil, <<>>), cache)
        ELSE Out(a, Resume(Below(st),
                           Errorf("deleteRegKeyRecursive failed to delete key path",
                                  AbsPath(f), a.err), <<>>), cache)

\* Mutant of DelDelete: whatever registry.DeleteKey answers is taken for success.
DelDeleteIgnoringErrors(r, st, cache, fail) ==
    Out(DeleteKey(r, Top(st).k, Top(st).path, fail), Resume(Below(st), nil, <<>>), cache)

\* deleteRegKeyRecursive, lines 273-281: delete the key, a missing key is success.
DelDelete(r, st, cache, fail) ==
    LET f == Top(st)
        a == DeleteKey(r, f.k, f.path, fail)
    IN  IF a.err = nil \/ a.err = ENOENT
        THEN Out(a, Resume(Below(st), nil, <<>>), cache)
        ELSE Out(a, Resume(Below(st),
                           Errorf("deleteRegKeyRecursive failed to delete key path",
                                  AbsPath(f), a.err), <<>>), cache)

\* Mutant of Wants: line 47 tests item.Extended where it is to test item.Admin.
WantsExtendedTwice(pc, item) ==
    CASE pc = "icon" -> Icon(item, manifestDir) # <<>>
      [] pc = "ext" -> item.Extended
      [] pc = "admin" -> item.Extended
      [] pc = "sub" -> item.Type = "folder"
      [] OTHER -> item.Type # "folder"

\* The conditions of lines 35, 41, 47 and 53 for the call at pc.
Wants(pc, item) ==
    CASE pc = "icon" -> Icon(item, manifestDir) # <<>>
      [] pc = "ext" -> item.Extended
      [] pc = "admin" -> item.Admin
      [] pc = "sub" -> item.Type = ContextMenuType_Folder
      [] OTHER -> item.Type # ContextMenuType_Folder

Chain == <<"title", "icon", "ext", "admin", "sub", "cmderase">>
Place(pc) == CHOOSE i \in 1..Len(Chain) : Chain[i] = pc

\* The next call of createContextMenu after the value of pc is set.
NextPc(pc, item) ==
    Chain[Min({i \in (Place(pc) + 1)..Len(Chain) : Wants(Chain[i], item)})]

\* createContextMenu goes on after the value of f.pc is set (lines 35-69).
AfterSet(st) ==
    LET f == Top(st)
        n == NextPc(f.pc, f.item)
    IN  IF n = "cmderase"
        THEN Going(CallDel(SetTop(st, [f EXCEPT !.pc = n]), Root,
                           Append(KeyPath(f), "command")), <<>>)
        ELSE Going(SetTop(st, [f EXCEPT !.pc = n]), <<>>)

\* The value name and data createContextMenu sets at pc (lines 31-54).
ValueName(pc) ==
    CASE pc = "title" -> "MUIVerb"
      [] pc = "icon" -> "Icon"
      [] pc = "ext" -> "Extended"
      [] pc = "admin" -> "HasLUAShield"
      [] OTHER -> "SubCommands"

ValueData(pc, item) ==
    CASE pc = "title" -> item.Title
      [] pc = "icon" -> Icon(item, manifestDir)
      [] OTHER -> <<>>

\* Mutant of CcmCreate: line 58 takes parentPath for keyPath, the shell key is
\* created beside the folder and not below it.
CcmCreateShellAtParent(r, st, cache, fail) ==
    LET f == Top(st)
        path == CASE f.pc = "create" -> KeyPath(f)
                  [] f.pc = "mkshell" -> Append(f.parent, "shell")
                  [] OTHER -> Append(KeyPath(f), "command")
        a == CreateKey(r, path, fail)
        h == [p |-> path, live |-> TRUE]
    IN  IF a.err # nil
        THEN Out(a, Resume(Below(st),
                           Errorf("failed to create registry key",
                                  IF f.pc = "mkshell" THEN KeyPath(f) ELSE path, a.err),
                           <<>>), cache)
        ELSE IF f.pc = "create"
        THEN Out(a, Going(SetTop(st, [f EXCEPT !.pc = "title", !.key = h]), <<>>), cache)
        ELSE IF f.pc = "mkshell"
        THEN Out(a, EnterLoop(st), cache)
        ELSE Out(a, Going(SetTop(st, [f EXCEPT !.pc = "cmdset", !.key = h]), <<>>), cache)

\* createContextMenu, lines 27, 58 and 74: registry.CreateKey.
CcmCreate(r, st, cache, fail) ==
    LET f == Top(st)
        path == CASE f.pc = "create" -> KeyPath(f)
                  [] f.pc = "mkshell" -> Append(KeyPath(f), "shell")
                  [] OTHER -> Append(KeyPath(f), "command")
        a == CreateKey(r, path, fail)
        h == [p |-> path, live |-> TRUE]
    IN  IF a.err # nil
        THEN Out(a, Resume(Below(st),
                           Errorf("failed to create registry key",
                                  IF f.pc = "mkshell" THEN KeyPath(f) ELSE path, a.err),
                           <<>>), cache)
        ELSE IF f.pc = "create"
        THEN Out(a, Going(SetTop(st, [f EXCEPT !.pc = "title", !.key = h]), <<>>), cache)
        ELSE IF f.pc = "mkshell"
        THEN Out(a, EnterLoop(st), cache)
        ELSE Out(a, Going(SetTop(st, [f EXCEPT !.pc = "cmdset", !.key = h]), <<>>), cache)

\* Mutant of CcmSet: a folder without children returns once SubCommands is
\* set, its shell key is not created.
CcmSetSkipEmptyShell(r, st, cache, fail) ==
    LET f == Top(st)
        a == SetValue(r, f.key, ValueName(f.pc), "SZ", ValueData(f.pc, f.item), fail)
    IN  IF a.err # nil
        THEN Out(a, Resume(Below(st), Errorf("failed to set", <<ValueName(f.pc)>>, a.err),
                           <<>>), cache)
        ELSE IF f.pc = "sub" /\ f.item.Items = <<>>
        THEN Out(a, Resume(Below(st), nil, <<KeyPath(f)>>), cache)
        ELSE IF f.pc = "sub"
        THEN Out(a, Going(SetTop(st, [f EXCEPT !.pc = "mkshell"]), <<>>), cache)
        ELSE Out(a, AfterSet(st), cache)

\* createContextMenu, lines 31-57: key.SetStringValue.
CcmSet(r, st, cache, fail) ==
    LET f == Top(st)
        a == SetValue(r, f.key, ValueName(f.pc), "SZ", ValueData(f.pc, f.item), fail)
    IN  IF a.err # nil
        THEN Out(a, Resume(Below(st), Errorf("failed to set", <<ValueName(f.pc)>>, a.err),
                           <<>>), cache)
        ELSE IF f.pc = "sub"
        THEN Out(a, Going(SetTop(st, [f EXCEPT !.pc = "mkshell"]), <<>>), cache)
        ELSE Out(a, AfterSet(st), cache)

\* log.Fatal(err) of line 228: the process ends where it stands.
Fatal(r, cache) ==
    Out(Unchanged(nil, r),
        Ctl(<<>>, "fatal",
            Errorf("nircmd.exe not found", <<>>,
                   <<[msg |-> "os.ErrNotExist", arg |-> <<>>]>>), <<>>),
        cache)

\* createContextMenu, line 78: item.CommandString(manifestDir), then
\* key.SetExpandStringValue("", ...).
CcmSetCmd(r, st, cache, e, fail) ==
    LET f == Top(st)
        n == IF f.item.Admin THEN findNircmd(cache, e)
             ELSE [path |-> <<>>, found |-> TRUE, cache |-> cache]
        a == SetValue(r, f.key, "", "EXPAND_SZ",
                      CommandString(f.item, manifestDir, n.path), fail)
    IN  IF ~n.found THEN Fatal(r, n.cache)
        ELSE IF a.err # nil
        THEN Out(a, Resume(Below(st), Errorf("failed to set command string", <<>>, a.err),
                           <<>>), n.cache)
        ELSE Out(a, Resume(Below(st), nil, <<KeyPath(f)>>), n.cache)

-----------------------------------------------------------------------------
(* Manifests, registries and lookups the model runs on                     *)

Entry(id, item) == [id |-> id, item |-> item]

\* {"type":"item","title":"One","command":["c.exe"]}
ItemPlain ==
    [NoItem EXCEPT !.Type = ContextMenuType_Item, !.Title = <<"O", "n", "e">>,
                   !.Command = <<<<"c", ".", "e", "x", "e">>>>]

\* an elevated item with an icon of index 2, shown in the extended menu only:
\* "command": ["${manifestFolder}\r.bat", "a b"]
ItemAdmin ==
    [NoItem EXCEPT !.Type = ContextMenuType_Item, !.Title = <<"T", "w", "o">>,
                   !.IconPath = Placeholder \o <<"\\", "i", ".", "d", "l", "l">>,
                   !.IconIndex = <<2>>, !.Extended = TRUE, !.Admin = TRUE,
                   !.Command = <<Placeholder \o <<"\\", "r", ".", "b", "a", "t">>,
                                 <<"a", " ", "b">>>>]

\* a folder that has no "items", shown in the extended menu only
FolderEmpty ==
    [NoItem EXCEPT !.Type = ContextMenuType_Folder, !.Title = <<"E">>, !.Extended = TRUE,
                   !.IconPath = <<"i", ".", "i", "c", "o">>]

FolderOf(items) ==
    [NoItem EXCEPT !.Type = ContextMenuType_Folder, !.Title = <<"F">>, !.Items = items]

TreeItem == <<Entry("a", ItemPlain)>>
TreeMixed ==
    <<Entry("a", FolderOf(<<Entry("a", ItemAdmin), Entry("b", FolderEmpty)>>)),
      Entry("b", ItemPlain)>>

Remove(seq, i) == SubSeq(seq, 1, i - 1) \o SubSeq(seq, i + 1, Len(seq))

RECURSIVE Reorder(_)
\* The orders in which Go may range over the maps of a manifest.
Reorder(items) ==
    IF items = <<>> THEN {<<>>}
    ELSE UNION {
           {<<Entry(items[i].id, [items[i].item EXCEPT !.Items = sub])>> \o others :
               sub \in Reorder(items[i].item.Items),
               others \in Reorder(Remove(items, i))} :
           i \in 1..Len(items)}

Trees == Reorder(TreeItem) \cup Reorder(TreeMixed)

\* The manifests two processes at once are started on.
TreeNested == <<Entry("a", FolderOf(<<Entry("b", ItemPlain)>>))>>
ConcTrees == {TreeItem, TreeNested}

EmptyReg == [keys |-> {}, vals |-> {}]

Val(key, name, data) == [key |-> key, name |-> name, kind |-> "SZ", data |-> data]

\* What earlier runs and other programs may have left: an entry a that is item
\* and folder at once and holds foreign keys and values, a child that no
\* manifest names, and an entry z of another program.
StaleReg ==
    [keys |-> {<<"a">>, <<"a", "command">>, <<"a", "old">>, <<"a", "old", "deep">>,
               <<"a", "shell">>, <<"a", "shell", "b">>, <<"a", "shell", "b", "command">>,
               <<"a", "shell", "x">>, <<"z">>, <<"z", "command">>},
     vals |-> {Val(<<"a">>, "MUIVerb", <<"o", "l", "d">>), Val(<<"a">>, "Junk", <<"j">>),
               Val(<<"a">>, "Extended", <<>>), Val(<<"a", "command">>, "", <<"o">>),
               Val(<<"a", "old", "deep">>, "Junk", <<>>),
               Val(<<"a", "shell", "b">>, "HasLUAShield", <<>>),
               Val(<<"a", "shell", "b", "command">>, "", <<"o">>),
               Val(<<"z">>, "MUIVerb", <<"Z">>), Val(<<"z", "command">>, "", <<"z">>)}]

InitRegs == {EmptyReg, StaleReg}

\* The helper is nowhere; in the bin directory of the working directory; or
\* os.Getwd fails and the helper is on the search path.
EnvBin == [cwdOk |-> TRUE, exeOk |-> TRUE, files |-> {2, 5}]
Envs ==
    {[cwdOk |-> TRUE, exeOk |-> TRUE, files |-> {}],
     EnvBin,
     [cwdOk |-> FALSE, exeOk |-> TRUE, files |-> {1, 5}]}

-----------------------------------------------------------------------------
(* The state machine                                                       *)

Procs == {1, 2}

Off == [status |-> "off", stack |-> <<>>, err |-> nil, cache |-> <<>>, tree |-> <<>>]

\* A process that has read the manifest tree and is at its first registry call.
Started(tree) ==
    LET c == run(tree)
    IN  [status |-> c.status, stack |-> c.stack, err |-> c.err, cache |-> <<>>,
         tree |-> tree]

NoRun == [valid |-> FALSE, tree |-> <<>>, reg0 |-> EmptyReg, reg |-> EmptyReg]

\* No projection is called apart from the install.
NoCall ==
    [status |-> "idle", c |-> NoItem, dir |-> <<>>, shape |-> <<>>, iconShape |-> <<>>,
     cache |-> <<>>, helper |-> <<>>, command |-> <<>>, icon |-> <<>>, values |-> {},
     called |-> {}, lookups |-> 0, first |-> <<>>]

FreshHist(r, prev) ==
    [reg0 |-> r, created |-> {}, written |-> {}, touched |-> {}, done |-> {},
     failed |-> <<>>, rejected |-> FALSE, injected |-> FALSE, enoent |-> {},
     lost |-> {}, raced |-> {}, prev |-> prev]

Init ==
    /\ reg \in InitRegs
    /\ env \in Envs
    /\ faulty \in BOOLEAN
    /\ \E t \in Trees : proc = [p \in Procs |-> IF p = 1 THEN Started(t) ELSE Off]
    /\ runNo = 1
    /\ proj = NoCall
    /\ hist = FreshHist(reg, NoRun)

\* Two processes started on the same manifest, or one process alone.
InitConc ==
    /\ reg \in InitRegs
    /\ env = EnvBin
    /\ faulty = FALSE
    /\ \E t \in ConcTrees : \E n \in 1..2 :
          proc = [p \in Procs |-> IF p <= n THEN Started(t) ELSE Off]
    /\ runNo = 1
    /\ proj = NoCall
    /\ hist = FreshHist(reg, NoRun)

At(p, fn, pcs) ==
    /\ proc[p].status = "running"
    /\ Top(proc[p].stack).fn = fn
    /\ Top(proc[p].stack).pc \in pcs

\* A handle once the keys in dead are deleted.
Mark(h, dead) == IF h.p \in dead THEN [p |-> h.p, live |-> FALSE] ELSE h

RECURSIVE Stale(_, _)
\* The handles of the keys in dead are handles of deleted keys from now on.
Stale(st, dead) ==
    IF st = <<>> THEN <<>>
    ELSE <<[st[1] EXCEPT !.k = Mark(st[1].k, dead), !.key = Mark(st[1].key, dead)]>>
            \o Stale(Tail(st), dead)

\* keyPath of the innermost createContextMenu of a stack
EntryOf(st) ==
    LET c == {i \in 1..Len(st) : st[i].fn = "ccm"}
    IN  KeyPath(st[CHOOSE i \in c : \A j \in c : j <= i])

Seen(seq) == {seq[i] : i \in 1..Len(seq)}

\* Process p has made the step with outcome out.
Do(p, out, fail) ==
    /\ reg' = out.reg
    /\ proc' = [q \in Procs |->
                  IF q = p
                  THEN [proc[p] EXCEPT !.status = out.status,
                                       !.stack = Stale(out.stack, out.deleted),
                                       !.err = out.err, !.cache = out.cache]
                  ELSE [proc[q] EXCEPT !.stack = Stale(@, out.deleted)]]
    /\ faulty' = (faulty /\ out.status # "err")
    /\ hist' = [hist EXCEPT
                  !.created = (@ \ out.deleted) \cup out.made,
                  !.written = {w \in @ : w.key \notin out.deleted} \cup out.wrote,
                  !.touched = @ \cup {EntryOf(proc[p].stack)},
                  !.done = @ \cup Seen(out.done),
                  !.failed = IF out.status \in {"err", "fatal"}
                             THEN EntryOf(proc[p].stack) ELSE @,
                  !.rejected = @ \/ out.errno \notin {nil, ENOENT},
                  !.injected = @ \/ (fail /\ out.status = "err"),
                  !.enoent = IF out.errno = ENOENT /\ Top(proc[p].stack).pc = "open"
                             THEN @ \cup {AbsPath(Top(proc[p].stack))} ELSE @,
                  !.lost = IF out.errno = ENOENT /\ Top(proc[p].stack).pc = "delete"
                           THEN @ \cup {AbsPath(Top(proc[p].stack))} ELSE @]
    /\ UNCHANGED <<env, runNo, proj>>

Faults == IF faulty THEN {FALSE, TRUE} ELSE {FALSE}

\* The orders in which the registry may enumerate the subkeys of a key.
Orders(S) ==
    {o \in [1..Cardinality(S) -> S] : \A i, j \in 1..Cardinality(S) : o[i] = o[j] => i = j}
Names(r, path) == {q[Len(q)] : q \in SubKeys(r, path)}

OpenKeyCall(p) ==
    /\ At(p, "del", {"open"})
    /\ \E fail \in Faults : Do(p, DelOpen(reg, proc[p].stack, proc[p].cache, fail), fail)

ReadSubKeyNamesCall(p) ==
    /\ At(p, "del", {"enum"})
    /\ \E fail \in Faults : \E ord \in Orders(Names(reg, Top(proc[p].stack).key.p)) :
          Do(p, DelEnum(reg, proc[p].stack, proc[p].cache, fail, ord), fail)

DeleteKeyCall(p) ==
    /\ At(p, "del", {"delete"})
    /\ \E fail \in Faults : Do(p, DelDelete(reg, proc[p].stack, proc[p].cache, fail), fail)

CreateKeyCall(p) ==
    /\ At(p, "ccm", {"create", "mkshell", "cmdcreate"})
    /\ \E fail \in Faults : Do(p, CcmCreate(reg, proc[p].stack, proc[p].cache, fail), fail)

SetStringValueCall(p) ==
    /\ At(p, "ccm", {"title", "icon", "ext", "admin", "sub"})
    /\ \E fail \in Faults : Do(p, CcmSet(reg, proc[p].stack, proc[p].cache, fail), fail)

SetExpandStringValueCall(p) ==
    /\ At(p, "ccm", {"cmdset"})
    /\ \E fail \in Faults : Do(p, CcmSetCmd(reg, proc[p].stack, proc[p].cache, env, fail), fail)

\* The program has ended with success and is started again, on any manifest.
NextRun ==
    /\ runNo < MaxRuns
    /\ proc[1].status = "ok"
    /\ proc[2].status = "off"
    /\ \E t \in Trees : proc' = [proc EXCEPT ![1] = Started(t)]
    /\ runNo' = runNo + 1
    /\ hist' = FreshHist(reg, [valid |-> TRUE, tree |-> proc[1].tree,
                               reg0 |-> hist.reg0, reg |-> reg])
    /\ UNCHANGED <<reg, env, faulty, proj>>

Step(p) ==
    \/ OpenKeyCall(p)
    \/ ReadSubKeyNamesCall(p)
    \/ DeleteKeyCall(p)
    \/ CreateKeyCall(p)
    \/ SetStringValueCall(p)
    \/ SetExpandStringValueCall(p)

Next == (\E p \in Procs : Step(p)) \/ NextRun

NextConc == \E p \in Procs : Step(p)

\* The keys an erase of process 1 has open or has enumerated and not yet
\* erased: the path of each erase past its OpenKey, and the subkeys still in
\* the range of each.
InErase ==
    UNION {IF proc[1].stack[i].fn # "del" \/ proc[1].stack[i].pc = "open" THEN {}
           ELSE {AbsPath(proc[1].stack[i])}
                  \cup {AbsPath(proc[1].stack[i]) \o <<proc[1].stack[i].names[j]>> :
                           j \in 1..Len(proc[1].stack[i].names)} :
           i \in 1..Len(proc[1].stack)}

\* Another agent removes key q, with what is below it, while an erase of
\* process 1 is at work on it; once in a behaviour.
OtherAgentRemoves ==
    /\ proc[1].status = "running"
    /\ hist.raced = {}
    /\ \E q \in InErase \cap reg.keys :
          LET dead == {k \in reg.keys : IsUnder(k, q)}
          IN  /\ reg' = [keys |-> reg.keys \ dead,
                         vals |-> {v \in reg.vals : v.key \notin dead}]
              /\ proc' = [p \in Procs |-> [proc[p] EXCEPT !.stack = Stale(@, dead)]]
              /\ hist' = [hist EXCEPT !.raced = {q},
                                      !.created = @ \ dead,
                                      !.written = {w \in @ : w.key \notin dead}]
    /\ UNCHANGED <<env, faulty, runNo, proj>>

\* One install on the stale registry, which rejects nothing, and another agent.
InitRace ==
    /\ reg = StaleReg
    /\ env = EnvBin
    /\ faulty = FALSE
    /\ \E t \in Trees : proc = [p \in Procs |-> IF p = 1 THEN Started(t) ELSE Off]
    /\ runNo = 1
    /\ proj = NoCall
    /\ hist = FreshHist(reg, NoRun)

NextRace == Step(1) \/ OtherAgentRemoves

\* One writer at a time: runs of the program in succession.
Spec == Init /\ [][Next]_vars

\* Up to two processes at once, one run each, on a registry that rejects nothing.
SpecConc == InitConc /\ [][NextConc]_vars

\* One install, and another agent that removes a key the install is erasing.
SpecRace == InitRace /\ [][NextRace]_vars

-----------------------------------------------------------------------------
(* The projections called apart from an install                            *)
(*                                                                         *)
(* CommandString and Icon are methods of a ContextMenu: here they are      *)
(* called on ContextMenus of any command and icon, with directories with   *)
(* and without a space, CommandString more than once in a process while    *)
(* the files the helper lookup sees come and go.                           *)

\* How many tokens a command has at most, and how often CommandString is
\* called in one process.
MaxTokens == 2
MaxCalls == 2

\* A token or path as the manifest holds it: pre, the placeholder if ph, post.
Shape(pre, ph, post) == [pre |-> pre, ph |-> ph, post |-> post]
Raw(t) == t.pre \o (IF t.ph THEN Placeholder ELSE <<>>) \o t.post
RawAll(shape) == [i \in 1..Len(shape) |-> Raw(shape[i])]

\* explorer.exe, ${manifestFolder}\tools\run.bat, a b, %1 and the empty token
TokExplorer == Shape(<<"e", "x", "p", "l", "o", "r", "e", "r", ".", "e", "x", "e">>, FALSE, <<>>)
TokRunBat == Shape(<<>>, TRUE, <<"\\", "t", "o", "o", "l", "s", "\\", "r", "u", "n", ".", "b", "a", "t">>)
TokSpace == Shape(<<"a", " ", "b">>, FALSE, <<>>)
TokPercent == Shape(<<"%", "1">>, FALSE, <<>>)
TokEmpty == Shape(<<>>, FALSE, <<>>)
Tokens == {TokExplorer, TokRunBat, TokSpace, TokPercent, TokEmpty}
TokenSeqs == UNION {[1..k -> Tokens] : k \in 0..MaxTokens}

\* ${manifestFolder}\icons\app.dll, and a path with a space and no placeholder
IconAppDll == Shape(<<>>, TRUE, <<"\\", "i", "c", "o", "n", "s", "\\", "a", "p", "p", ".", "d", "l", "l">>)
IconPlain == Shape(<<"C", ":", "\\", "i", " ", "c", ".", "i", "c", "o">>, FALSE, <<>>)
IconShapes == {<<>>, <<IconAppDll>>, <<IconPlain>>}
\* "iconIndex" is absent, 0, 2 or 12
IconIndexes == {<<>>, <<0>>, <<2>>, <<12>>}

\* C:\menu, and C:\m u
DirSpaced == <<"C", ":", "\\", "m", " ", "u">>
Dirs == {manifestDir, DirSpaced}

\* The helper is in the working directory and its bin directory; nowhere;
\* or found by the search path relative to the current directory only.
EnvCwd == [cwdOk |-> TRUE, exeOk |-> TRUE, files |-> {1, 2}]
EnvGone == [cwdOk |-> TRUE, exeOk |-> TRUE, files |-> {}]
EnvDot == [cwdOk |-> TRUE, exeOk |-> TRUE, files |-> {6}]
ProjEnvs == {EnvBin, EnvCwd, EnvGone, EnvDot}

Ready(c, dir, shape, iconShape) ==
    [NoCall EXCEPT !.status = "ready", !.c = c, !.dir = dir, !.shape = shape,
                   !.iconShape = iconShape]

CommandInputs ==
    {Ready([NoItem EXCEPT !.Type = ContextMenuType_Item, !.Admin = admin,
                          !.Command = RawAll(shape)], dir, shape, <<>>) :
        shape \in TokenSeqs, admin \in BOOLEAN, dir \in Dirs}

IconInputs ==
    {Ready([NoItem EXCEPT !.Type = ContextMenuType_Item,
                          !.IconPath = IF s = <<>> THEN <<>> ELSE Raw(s[1]),
                          !.IconIndex = idx], dir, <<>>, s) :
        s \in IconShapes, idx \in IconIndexes, dir \in Dirs}

InitProj ==
    /\ reg = EmptyReg
    /\ proc = [p \in Procs |-> Off]
    /\ env \in ProjEnvs
    /\ faulty = FALSE
    /\ runNo = 1
    /\ proj \in CommandInputs \cup IconInputs
    /\ hist = FreshHist(reg, NoRun)

\* c.CommandString(dir), lines 220-241: the lookup of line 227 for an elevated
\* item, log.Fatal when it fails, the command line otherwise.
CommandStringCall ==
    /\ proj.status = "ready"
    /\ proj.lookups < MaxCalls
    /\ LET n == IF proj.c.Admin THEN findNircmd(proj.cache, env)
                ELSE [path |-> <<>>, found |-> TRUE, cache |-> proj.cache]
       IN  proj' = [proj EXCEPT
                      !.status = IF n.found THEN "ready" ELSE "fatal",
                      !.cache = n.cache,
                      !.helper = n.path,
                      !.command = IF n.found THEN CommandString(proj.c, proj.dir, n.path)
                                  ELSE <<>>,
                      !.called = @ \cup {"command"},
                      !.lookups = @ + 1,
                      !.first = IF @ = <<>> /\ proj.c.Admin /\ n.found THEN n.path ELSE @]
    /\ UNCHANGED <<reg, proc, env, faulty, runNo, hist>>

\* Lines 35-40: icon := item.Icon(dir), set as the value Icon unless empty.
IconCall ==
    /\ proj.status = "ready"
    /\ "icon" \notin proj.called
    /\ LET icon == Icon(proj.c, proj.dir)
       IN  proj' = [proj EXCEPT
                      !.icon = icon,
                      !.values = IF icon # <<>> THEN {[name |-> "Icon", data |-> icon]}
                                 ELSE {},
                      !.called = @ \cup {"icon"}]
    /\ UNCHANGED <<reg, proc, env, faulty, runNo, hist>>

\* Between two calls the helper is removed, or put in another place.
EnvChange ==
    /\ proj.status = "ready"
    /\ env' \in ProjEnvs \ {env}
    /\ UNCHANGED <<reg, proc, faulty, runNo, proj, hist>>

NextProj == CommandStringCall \/ IconCall \/ EnvChange

SpecProj == InitProj /\ [][NextProj]_vars

-----------------------------------------------------------------------------
(* What the properties speak of                                            *)

IsFolder(n) == n.Type = ContextMenuType_Folder
Ids(items) == {items[i].id : i \in 1..Len(items)}
ValuesAt(r, q) == {[name |-> v.name, kind |-> v.kind, data |-> v.data] : v \in {w \in r.vals : w.key = q}}
Sz(name, data) == [name |-> name, kind |-> "SZ", data |-> data]

RECURSIVE NodesOf(_, _)
\* The nodes of a manifest with their registry paths: the children of a
\* folder at q lie below q\shell.
NodesOf(items, parent) ==
    UNION {{[path |-> Append(parent, items[i].id), node |-> items[i].item]}
             \cup (IF IsFolder(items[i].item)
                   THEN NodesOf(items[i].item.Items,
                                Append(Append(parent, items[i].id), "shell"))
                   ELSE {}) :
           i \in 1..Len(items)}

\* The helper path a first lookup of this behaviour finds.
HelperPath == findNircmd(<<>>, env).path
HelperFound == findNircmd(<<>>, env).found

\* The values the location of node n is to hold.
OwnValues(n) ==
    {Sz("MUIVerb", n.Title)}
      \cup (IF n.IconPath # <<>> THEN {Sz("Icon", Icon(n, manifestDir))} ELSE {})
      \cup (IF n.Extended THEN {Sz("Extended", <<>>)} ELSE {})
      \cup (IF n.Admin THEN {Sz("HasLUAShield", <<>>)} ELSE {})
      \cup (IF IsFolder(n) THEN {Sz("SubCommands", <<>>)} ELSE {})

CommandValue(n) ==
    [name |-> "", kind |-> "EXPAND_SZ", data |-> CommandString(n, manifestDir, HelperPath)]

\* Node n is installed at q in r: its values, and nothing else but its
\* children container (a folder) or its command location (an item).
NodeInstalled(r, q, n) ==
    /\ q \in r.keys
    /\ ValuesAt(r, q) = OwnValues(n)
    /\ IF IsFolder(n)
       THEN /\ SubKeys(r, q) = {Append(q, "shell")}
            /\ \A id \in Ids(n.Items) : Append(Append(q, "shell"), id) \in r.keys
       ELSE /\ SubKeys(r, q) = {Append(q, "command")}
            /\ SubKeys(r, Append(q, "command")) = {}
            /\ ValuesAt(r, Append(q, "command")) = {CommandValue(n)}

Ended(p) == proc[p].status \in {"ok", "err", "fatal"}

\* C1: after a successful install every node of the tree has its location at
\* parentPath\id (a child of a folder below the folder's shell key) holding
\* exactly the title, the icon iff an icon path is configured, the extended
\* marker iff extended, the elevation marker iff admin, and for a folder the
\* submenu marker and the children container, for an item the command
\* location with the projected command line: no other value, no other child.
C1_NodesInstalled ==
    proc[1].status = "ok" =>
        \A e \in NodesOf(proc[1].tree, <<>>) : NodeInstalled(reg, e.path, e.node)

\* C1 witness: the mixed tree installed with success over the stale registry.
C1_Witness ==
    /\ proc[1].status = "ok"
    /\ proc[1].tree = TreeMixed
    /\ hist.reg0 = StaleReg

\* C2: after a successful install no key and no value below the path of a tree
\* node survives unless the current install created it.
C2_EraseComplete ==
    proc[1].status = "ok" =>
        \A e \in NodesOf(proc[1].tree, <<>>) :
            /\ \A k \in reg.keys : IsUnder(k, e.path) => k \in hist.created
            /\ \A v \in reg.vals : IsUnder(v.key, e.path) =>
                                      [key |-> v.key, name |-> v.name] \in hist.written

\* C2 witness: an item installed with success at a path that held values and
\* a subtree no manifest names.
C2_Witness ==
    /\ proc[1].status = "ok"
    /\ proc[1].tree = TreeItem
    /\ <<"a", "old", "deep">> \in hist.reg0.keys
    /\ \E v \in hist.reg0.vals : v.key = <<"a">> /\ v.name = "Junk"


\* The manifests t and u hold the same entries, in whatever order.
SameManifest(t, u) == t \in Reorder(u)

\* The run at hand follows a successful run of the same manifest that
\* started on an empty registry.
SecondOfTwo ==
    /\ hist.prev.valid
    /\ hist.prev.reg0 = EmptyReg
    /\ SameManifest(hist.prev.tree, proc[1].tree)

\* C3: install(tree) run twice in succession from an empty registry ends (with
\* success, unless the registry rejects a call) in the registry state that
\* the first run ended in.
C3_Idempotent ==
    (SecondOfTwo /\ Ended(1) /\ ~hist.injected) =>
        (proc[1].status = "ok" /\ reg = hist.prev.reg)

\* C3 witness: the second of two successful runs of the mixed tree from empty.
C3_Witness ==
    /\ SecondOfTwo
    /\ proc[1].status = "ok"
    /\ proc[1].tree = TreeMixed

NodeAt(tree, q) == (CHOOSE e \in NodesOf(tree, <<>>) : e.path = q).node
PathsOf(tree) == {e.path : e \in NodesOf(tree, <<>>)}

\* C4: an identifier that the run before installed as an item and this run as
\* a folder has no command location and no command value left and has its
\* children container; one that was a folder and is an item has no submenu
\* marker, no children container, no former child, and has its command
\* location with the command value.
C4_VariantExclusive ==
    (proc[1].status = "ok" /\ hist.prev.valid) =>
        \A q \in PathsOf(proc[1].tree) \cap PathsOf(hist.prev.tree) :
            LET was == NodeAt(hist.prev.tree, q)
                now == NodeAt(proc[1].tree, q)
                cmd == Append(q, "command")
                sub == Append(q, "shell")
            IN  /\ (~IsFolder(was) /\ IsFolder(now)) =>
                       /\ \A k \in reg.keys : ~IsUnder(k, cmd)
                       /\ \A v \in reg.vals : ~IsUnder(v.key, cmd)
                       /\ sub \in reg.keys
                /\ (IsFolder(was) /\ ~IsFolder(now)) =>
                       /\ \A k \in reg.keys : ~IsUnder(k, sub)
                       /\ \A v \in reg.vals : ~(v.key = q /\ v.name = "SubCommands")
                       /\ cmd \in reg.keys
                       /\ ValuesAt(reg, cmd) = {CommandValue(now)}

\* C4 witness: a was installed as an item and is installed again as a folder.
C4_Witness ==
    /\ proc[1].status = "ok"
    /\ hist.prev.valid
    /\ hist.prev.tree = TreeItem
    /\ proc[1].tree = TreeMixed

\* The other direction of C4 is reached as well: a folder with children
\* installed again as an item.
C4_FolderThenItem ==
    /\ proc[1].status = "ok"
    /\ hist.prev.valid
    /\ hist.prev.tree = TreeMixed
    /\ proc[1].tree = TreeItem

RECURSIVE PreorderOf(_, _)
\* The paths of the entries of a manifest in the order they are worked on.
PreorderOf(items, parent) ==
    IF items = <<>> THEN <<>>
    ELSE LET q == Append(parent, items[1].id)
         IN  <<q>> \o (IF IsFolder(items[1].item)
                       THEN PreorderOf(items[1].item.Items, Append(q, "shell"))
                       ELSE <<>>)
                   \o PreorderOf(Tail(items), parent)

IndexOf(seq, x) == CHOOSE i \in 1..Len(seq) : seq[i] = x

\* What is written of a folder before its first child is worked on.
FolderBegun(r, q, n) ==
    /\ q \in r.keys
    /\ ValuesAt(r, q) = OwnValues(n)
    /\ Append(q, "shell") \in r.keys

\* The state a run is in once the registry has rejected a call for the k-th
\* entry: it has ended with an error, the entries before the k-th are
\* installed (an enclosing folder as far as it was written), and no call was
\* made for an entry after the k-th.
FailedFast ==
    hist.rejected =>
        /\ proc[1].status = "err"
        /\ LET order == PreorderOf(proc[1].tree, <<>>)
               k == IndexOf(order, hist.failed)
           IN  /\ \A j \in 1..(k - 1) :
                     IF IsUnder(hist.failed, order[j])
                     THEN FolderBegun(reg, order[j], NodeAt(proc[1].tree, order[j]))
                     ELSE NodeInstalled(reg, order[j], NodeAt(proc[1].tree, order[j]))
               /\ hist.touched \subseteq {order[j] : j \in 1..k}

\* C5: when the registry rejects a call for the k-th entry, install stops with
\* an error at once: the rejected call and the return change nothing in the
\* registry (no rollback), the entries before it stay installed, no call is
\* made for an entry after it, and no step follows.
C5_FailFast ==
    /\ []FailedFast
    /\ [][/\ proc[1].status # "err"
          /\ (proc'[1].status = "err" => reg' = reg)]_vars

\* C5 witness: the third entry in order fails inside a folder, after the
\* folder's first child is installed and before the last top-level entry.
C5_Witness ==
    /\ proc[1].status = "err"
    /\ hist.rejected
    /\ proc[1].tree = TreeMixed
    /\ hist.reg0 = StaleReg
    /\ hist.failed = <<"a", "shell", "b">>
    /\ <<"a", "shell", "a">> \in hist.done

\* The del frame on top of process 1's stack is at its OpenKey call for a
\* path that does not exist.
ErasingMissing ==
    /\ At(1, "del", {"open"})
    /\ AbsPath(Top(proc[1].stack)) \notin reg.keys

\* C6: erase(path) on a path that does not exist returns success (it does not
\* go on to enumerate, the caller gets nil and goes on) and leaves the whole
\* registry unchanged.
C6_NotFoundTolerated ==
    [][ErasingMissing =>
          /\ reg' = reg
          /\ proc'[1].status \in {"running", "ok"}
          /\ proc'[1].err = nil
          /\ (proc'[1].stack = <<>> \/ Top(proc'[1].stack).pc # "enum")]_vars

\* C6 witness: the erase of line 70 has found no command key and returned.
C6_Witness ==
    /\ <<"a", "command">> \in hist.enoent
    /\ At(1, "ccm", {"cmdcreate"})
    /\ reg.keys = {<<"a">>}


StartsWith(str, pre) == Len(str) >= Len(pre) /\ SubSeq(str, 1, Len(pre)) = pre

\* The command values this run has written for its elevated items start with
\* the quoted path of a helper that exists, followed by elevate.
C7_NoUnprefixedCommand ==
    \A e \in NodesOf(proc[1].tree, <<>>) :
        \A v \in reg.vals :
            (/\ e.node.Admin /\ ~IsFolder(e.node)
             /\ v.key = Append(e.path, "command")
             /\ [key |-> v.key, name |-> v.name] \in hist.written) =>
                \E i \in Probed(env) \cap env.files :
                    StartsWith(v.data, quoteWindowsPath(Candidate(i)) \o <<" ">> \o Elevate)

\* The run has come to the command line of an elevated item and found no helper.
HelperMissed ==
    /\ Ended(1)
    /\ proc[1].status # "ok"
    /\ ~hist.rejected
    /\ ~HelperFound

\* C7: when an elevated item is installed and no helper is found, the failure
\* of the projection comes back through install as an error and install
\* aborts; and no elevated item ever holds a command value without the helper
\* prefix.
C7_HelperFailurePropagates ==
    /\ HelperMissed => (proc[1].status = "err" /\ proc[1].err # nil)
    /\ C7_NoUnprefixedCommand

IsIdWrap(w) == w.msg = "failed to create context menu ID"
\* The identifiers an error chain names, outermost first.
Breadcrumb(chain) ==
    LET w == SelectSeq(chain, IsIdWrap) IN [i \in 1..Len(w) |-> w[i].arg[1]]
\* The identifiers on the way to the entry at q, top-level first.
IdsTo(q) == [i \in 1..((Len(q) + 1) \div 2) |-> q[2 * i - 1]]

\* What C8 says holds of the calls the registry rejects: the chain names the
\* failing entry and its ancestors, once each.
C8_AdapterBreadcrumb ==
    proc[1].status = "err" => Breadcrumb(proc[1].err) = IdsTo(hist.failed)

\* C8: every error that aborts an install (a rejected erase, create or set,
\* and the helper not found) reaches the top level wrapped once by each
\* level it passes, so that the chain names the failing node and each of its
\* ancestors up to the top-level entry.
C8_Breadcrumb ==
    proc[1].status \in {"err", "fatal"} => Breadcrumb(proc[1].err) = IdsTo(hist.failed)

\* Some order of the subkeys of a key.
SomeOrder(S) == CHOOSE o \in Orders(S) : TRUE

\* The step of a process alone on a registry that rejects nothing.
Exec(r, st, cache, e) ==
    LET f == Top(st)
    IN  IF f.fn = "del"
        THEN CASE f.pc = "open" -> DelOpen(r, st, cache, FALSE)
               [] f.pc = "enum" ->
                    DelEnum(r, st, cache, FALSE, SomeOrder(Names(r, f.key.p)))
               [] OTHER -> DelDelete(r, st, cache, FALSE)
        ELSE CASE f.pc \in {"create", "mkshell", "cmdcreate"} ->
                    CcmCreate(r, st, cache, FALSE)
               [] f.pc = "cmdset" -> CcmSetCmd(r, st, cache, e, FALSE)
               [] OTHER -> CcmSet(r, st, cache, FALSE)

RECURSIVE RunOn(_, _)
\* The steps of a process alone from outcome o to its end.
RunOn(o, e) ==
    IF o.status # "running" THEN [status |-> o.status, reg |-> o.reg]
    ELSE RunOn(Exec(o.reg, Stale(o.stack, o.deleted), o.cache, e), e)

\* install(tree) from registry r to its end: how it ends, and the registry then.
Install(r, tree, e) == RunOn(Out(Unchanged(nil, r), run(tree), <<>>), e)

\* C9: the registry a successful install ends in is the one the install ends
\* in, from the same registry, for every other order of the siblings of each
\* level.
C9_OrderIndependent ==
    proc[1].status = "ok" =>
        \A t \in Reorder(proc[1].tree) :
            LET other == Install(hist.reg0, t, env)
            IN  other.status = "ok" /\ other.reg = reg

\* C9 witness: the mixed tree installed over the stale registry with the
\* siblings of both levels in the other order.
C9_Witness ==
    /\ proc[1].status = "ok"
    /\ hist.reg0 = StaleReg
    /\ proc[1].tree =
          <<Entry("b", ItemPlain),
            Entry("a", FolderOf(<<Entry("b", FolderEmpty), Entry("a", ItemAdmin)>>))>>

Installed(r, tree) == \A e \in NodesOf(tree, <<>>) : NodeInstalled(r, e.path, e.node)

\* C10: install takes no lock, the calls of two installs interleave freely; a
\* single writer ends with success in the projected state of its tree, two
\* writers at once need not (the witness).
C10_SingleWriter ==
    (proc[2].status = "off" /\ Ended(1)) =>
        (proc[1].status = "ok" /\ Installed(reg, proc[1].tree))

\* C10 witness: two installs of the same tree at once, and one of them fails
\* though the registry rejects no call of a single writer.
C10_Witness ==
    /\ Ended(1) /\ Ended(2)
    /\ proc[2].status # "off"
    /\ proc[1].tree = proc[2].tree
    /\ proc[1].status = "err"

\* Two installs at once that both end with success.
C10_BothSucceed ==
    /\ proc[1].status = "ok" /\ proc[2].status = "ok"

\* Two installs at once that both end with success leave the projected state.
C10_BothSucceedInstalled ==
    (proc[1].status = "ok" /\ proc[2].status = "ok") => Installed(reg, proc[1].tree)

-----------------------------------------------------------------------------
(* The projections                                                         *)

\* What the substitution is to make of a token of shape t.
Subst(t, dir) == t.pre \o (IF t.ph THEN dir ELSE <<>>) \o t.post
HasChar(s, ch) == \E i \in 1..Len(s) : s[i] = ch
NeedsQuotes(s) == HasChar(s, " ") \/ HasChar(s, "%")
\* How many characters token t takes in the command line.
Width(t, dir) == Len(Subst(t, dir)) + (IF NeedsQuotes(Subst(t, dir)) THEN 2 ELSE 0)

RECURSIVE Offset(_, _, _)
\* How many characters of the command line precede token i of shape.
Offset(shape, dir, i) ==
    IF i = 1 THEN 0
    ELSE Offset(shape, dir, i - 1) + Width(shape[i - 1], dir) + 1

\* CommandString has been called and has returned.
Projected == "command" \in proj.called /\ proj.status = "ready"

\* The call of the example: admin=false, command=["explorer.exe",
\* "${manifestFolder}\tools\run.bat"], baseDir="C:\menu".
ExampleCommand ==
    /\ Projected
    /\ ~proj.c.Admin
    /\ proj.c.Command = <<<<"e", "x", "p", "l", "o", "r", "e", "r", ".", "e", "x", "e">>,
                          <<"$", "{", "m", "a", "n", "i", "f", "e", "s", "t", "F", "o", "l", "d", "e", "r", "}", "\\", "t", "o", "o", "l", "s", "\\", "r", "u", "n", ".", "b", "a", "t">>>>
    /\ proj.dir = <<"C", ":", "\\", "m", "e", "n", "u">>

\* C11 as claimed: the example projects to explorer.exe "C:\menu\tools\run.bat",
\* the second token in double quotes.
C11_ExampleQuoted ==
    ExampleCommand => proj.command = 
        <<"e", "x", "p", "l", "o", "r", "e", "r", ".", "e", "x", "e", " ", "\"", "C", ":", "\\", "m", "e", "n", "u", "\\", "t", "o", "o", "l", "s", "\\", "r", "u", "n", ".", "b", "a", "t", "\"">>

\* C11, amended: the example projects to explorer.exe C:\menu\tools\run.bat,
\* neither token holding a space or a percent character, both are left bare.
C11_ExampleBare ==
    ExampleCommand => proj.command = 
        <<"e", "x", "p", "l", "o", "r", "e", "r", ".", "e", "x", "e", " ", "C", ":", "\\", "m", "e", "n", "u", "\\", "t", "o", "o", "l", "s", "\\", "r", "u", "n", ".", "b", "a", "t">>

\* C11 witness: CommandString has returned for the example.
C11_Witness == ExampleCommand /\ proj.lookups = 1

\* The characters of the command line before its first command token: the
\* quoted helper, elevate and two spaces for an elevated item.
Lead == IF proj.c.Admin THEN Len(proj.helper) + 11 ELSE 0

\* C12: each token has the placeholder replaced by the directory and is then
\* put in double quotes iff it holds a space or a percent character, else is
\* emitted as it is; the tokens keep their order and are joined by one space.
C12_QuotingRule ==
    (Projected /\ proj.shape # <<>>) =>
        LET n == Len(proj.shape)
            at(i) == Lead + Offset(proj.shape, proj.dir, i)
            text(i) == Subst(proj.shape[i], proj.dir)
        IN  /\ Len(proj.command) = at(n) + Width(proj.shape[n], proj.dir)
            /\ \A i \in 1..n :
                  /\ SubSeq(proj.command, at(i) + 1, at(i) + Width(proj.shape[i], proj.dir))
                       = IF NeedsQuotes(text(i)) THEN <<"\"">> \o text(i) \o <<"\"">>
                         ELSE text(i)
                  /\ i > 1 => proj.command[at(i)] = " "

\* C12 witness: a token that holds a space only once the directory is put in,
\* followed by a token with a percent character.
C12_Witness ==
    /\ Projected
    /\ proj.shape = <<TokRunBat, TokPercent>>
    /\ proj.dir = DirSpaced

\* CommandString has returned for an elevated item with the helper found at
\* C:\menu\bin\nircmd.exe.
AdminCall ==
    /\ Projected
    /\ proj.c.Admin
    /\ proj.helper = 
        <<"C", ":", "\\", "m", "e", "n", "u", "\\", "b", "i", "n", "\\", "n", "i", "r", "c", "m", "d", ".", "e", "x", "e">>

AdminPrefix == 
    <<"\"", "C", ":", "\\", "m", "e", "n", "u", "\\", "b", "i", "n", "\\", "n", "i", "r", "c", "m", "d", ".", "e", "x", "e", "\"", " ", "e", "l", "e", "v", "a", "t", "e">>

\* C13 as claimed: for every command, the empty one included, the command line
\* of an elevated item begins with "C:\menu\bin\nircmd.exe" elevate and a space.
C13_AdminPrefixSpace ==
    AdminCall => StartsWith(proj.command, AdminPrefix \o <<" ">>)

\* C13, amended: the command line of an elevated item begins with
\* "C:\menu\bin\nircmd.exe" elevate, followed by a space when the command has
\* a token; for the empty command it is "C:\menu\bin\nircmd.exe" elevate and
\* nothing more.
C13_AdminPrefix ==
    AdminCall => IF proj.c.Command = <<>> THEN proj.command = AdminPrefix
                 ELSE StartsWith(proj.command, AdminPrefix \o <<" ">>)

\* C13 witness: an elevated item of two tokens, the helper in C:\menu\bin.
C13_Witness ==
    /\ AdminCall
    /\ proj.shape = <<TokSpace, TokExplorer>>
    /\ env = EnvBin

\* C13: the elevated item without a command is reached too.
C13_EmptyCommand == AdminCall /\ proj.c.Command = <<>>

IndexText(n) == CASE n = 0 -> <<"0">> [] n = 2 -> <<"2">> [] OTHER -> <<"1", "2">>

\* What Icon is to return for the icon path and index of the call.
ExpectIcon ==
    IF proj.iconShape = <<>> THEN <<>>
    ELSE <<"\"">> \o Subst(proj.iconShape[1], proj.dir) \o <<"\"">>
            \o (IF proj.c.IconIndex = <<>> THEN <<>>
                ELSE <<",">> \o IndexText(proj.c.IconIndex[1]))

\* The call of the example: iconPath="${manifestFolder}\icons\app.dll",
\* iconIndex=2, baseDir="C:\menu".
ExampleIcon ==
    /\ "icon" \in proj.called
    /\ proj.c.IconPath = <<"$", "{", "m", "a", "n", "i", "f", "e", "s", "t", "F", "o", "l", "d", "e", "r", "}", "\\", "i", "c", "o", "n", "s", "\\", "a", "p", "p", ".", "d", "l", "l">>
    /\ proj.c.IconIndex = <<2>>
    /\ proj.dir = <<"C", ":", "\\", "m", "e", "n", "u">>

\* C14: Icon returns the empty string when no icon path is configured, whatever
\* the index, and no icon value is set then; otherwise the path with the
\* placeholder replaced, always in double quotes, followed by ,<index> iff an
\* index is present, 0 included: "C:\menu\icons\app.dll",2 for the example.
C14_IconProjection ==
    "icon" \in proj.called =>
        /\ proj.icon = ExpectIcon
        /\ proj.c.IconPath = <<>> => (proj.icon = <<>> /\ proj.values = {})
        /\ proj.c.IconPath # <<>> => proj.values = {[name |-> "Icon", data |-> ExpectIcon]}
        /\ ExampleIcon => proj.icon = 
              <<"\"", "C", ":", "\\", "m", "e", "n", "u", "\\", "i", "c", "o", "n", "s", "\\", "a", "p", "p", ".", "d", "l", "l", "\"", ",", "2">>

\* C14 witness: Icon has returned for the example.
C14_Witness == ExampleIcon /\ "command" \notin proj.called

\* C14: the index 0, and an index without a path, are reached too.
C14_IndexZero ==
    "icon" \in proj.called /\ proj.c.IconIndex = <<0>> /\ proj.c.IconPath # <<>>
C14_IndexWithoutPath ==
    "icon" \in proj.called /\ proj.c.IconIndex = <<12>> /\ proj.c.IconPath = <<>>

\* A step is a lookup of an elevated item whose process has a location cached.
CachedLookup ==
    /\ proj.cache # <<>>
    /\ proj.c.Admin
    /\ proj'.lookups = proj.lookups + 1

\* What C19 says of later lookups holds: once a location is cached it stays
\* cached, and a lookup returns it whatever files are there by then.
C19_CacheKept ==
    [][/\ proj.cache # <<>> => proj'.cache = proj.cache
       /\ CachedLookup => (proj'.status = "ready" /\ proj'.helper = proj.cache)]_vars

\* A lookup has returned the cached location with the helper no longer there,
\* and one with a candidate of higher priority there by then.
C19_HelperRemoved ==
    /\ proj.lookups = 2
    /\ proj.helper = proj.first
    /\ env = EnvGone
C19_BetterCandidate ==
    /\ proj.lookups = 2
    /\ proj.helper = Candidate(2)
    /\ env = EnvCwd

\* C19: once a lookup has succeeded, every later lookup of the process returns
\* that location without probing again, also when the helper is gone or a
\* candidate of higher priority is there; a failed lookup caches nothing, the
\* cache holds no location but one a successful lookup found.
C19_HelperCache ==
    /\ [](proj.status = "fatal" => proj.cache = <<>>)
    /\ [](proj.cache # <<>> => proj.cache = proj.first)
    /\ [][/\ proj.cache # <<>> => proj'.cache = proj.cache
          /\ CachedLookup => (/\ proj'.status = "ready"
                              /\ proj'.helper = proj.cache
                              /\ proj'.helper = proj.first)]_vars

-----------------------------------------------------------------------------
(* Folders and the erase                                                   *)

\* C15: after a successful install every folder of the tree has its children
\* container, a folder without children too, and the container holds one
\* child location per child identifier of the folder and no other.
C15_FolderContainer ==
    proc[1].status = "ok" =>
        \A e \in NodesOf(proc[1].tree, <<>>) :
            IsFolder(e.node) =>
                /\ Append(e.path, "shell") \in reg.keys
                /\ Names(reg, Append(e.path, "shell")) = Ids(e.node.Items)

\* C15 witness: a folder without children is installed below a container that
\* held the child x of an earlier manifest.
C15_Witness ==
    /\ proc[1].status = "ok"
    /\ <<"a", "shell", "b", "shell">> \in reg.keys
    /\ <<"a", "shell", "x">> \in hist.reg0.keys

\* The keys of r at or below path.
Under(r, path) == {k \in r.keys : IsUnder(k, path)}

\* The erase on top of process 1's stack is at its DeleteKey call.
AtDelete == At(1, "del", {"delete"})

\* This step ends the erase on top of process 1's stack with success: the
\* frame is at a call that may return, the step is the call (no other agent's
\* step), no error comes of it, and the frame has not gone on to enumerate.
ErasedWithSuccess ==
    /\ At(1, "del", {"open", "delete"})
    /\ hist'.raced = hist.raced
    /\ proc'[1].status # "err"
    /\ ~(/\ Len(proc'[1].stack) >= Len(proc[1].stack)
         /\ proc'[1].stack[Len(proc[1].stack)].fn = "del"
         /\ proc'[1].stack[Len(proc[1].stack)].pc = "enum")

\* C16: the delete of a location is attempted only when every descendant is
\* deleted, never on a location that has a child; and when erase(path)
\* returns success neither path nor a descendant of it exists.
C16_PostOrder ==
    /\ [](AtDelete => Under(reg, AbsPath(Top(proc[1].stack)))
                         \subseteq {AbsPath(Top(proc[1].stack))})
    /\ [][ErasedWithSuccess => Under(reg', AbsPath(Top(proc[1].stack))) = {}]_vars

\* C16 witness: the erase of a, which had children and a grandchild, is at its
\* DeleteKey call.
C16_Witness ==
    /\ AtDelete
    /\ AbsPath(Top(proc[1].stack)) = <<"a">>
    /\ <<"a", "old", "deep">> \in hist.reg0.keys
    /\ runNo = 1

IsDel(f) == f.fn = "del"
IsSubkeyWrap(w) == w.msg = "deleteRegKeyRecursive failed to delete subkey of path"

\* The erases that wait for the erase on top of stack st, outermost first.
Waiting(st) == SelectSeq(Below(st), IsDel)

\* In this step the registry rejects a call of an erase that erases a subkey
\* for another erase.
SubkeyEraseRejected ==
    /\ At(1, "del", {"open", "enum", "delete"})
    /\ Waiting(proc[1].stack) # <<>>
    /\ ~hist.rejected
    /\ hist'.rejected

\* C17: when the erase of a child fails with a failure other than not-found,
\* erase(path) returns an error at once, wrapped with the failing path at
\* each level; the subkeys still to come at each level are not erased, path
\* and its ancestors are not deleted, what was erased stays erased, and no
\* call follows.
C17_EraseFailFast ==
    [][SubkeyEraseRejected =>
          LET st == proc[1].stack
              w == Waiting(st)
              crumbs == SelectSeq(proc'[1].err, IsSubkeyWrap)
          IN  /\ proc'[1].status = "err"
              /\ proc'[1].stack = <<>>
              /\ Len(crumbs) = Len(w)
              /\ \A i \in 1..Len(w) : crumbs[i].arg = AbsPath(w[i]) \o <<w[i].names[1]>>
              /\ \E i \in 1..Len(proc'[1].err) : proc'[1].err[i].arg = AbsPath(Top(st))
              /\ \A i \in 1..Len(w) :
                    /\ Prefixes(AbsPath(w[i])) \subseteq reg'.keys
                    /\ \A j \in 1..Len(w[i].names) :
                          AbsPath(w[i]) \o <<w[i].names[j]>> \in reg'.keys
              /\ reg' = reg]_vars

\* C17 witness: the erase of a has failed two levels down, at a\old\deep, with
\* a\command erased before and a\shell still to come.
C17_Witness ==
    /\ proc[1].status = "err"
    /\ hist.injected
    /\ Len(SelectSeq(proc[1].err, IsSubkeyWrap)) = 2
    /\ <<"a", "command">> \notin reg.keys
    /\ {<<"a">>, <<"a", "old", "deep">>, <<"a", "shell">>} \subseteq reg.keys

-----------------------------------------------------------------------------
(* The frame of an install                                                 *)

\* Key k lies in none of the subtrees of the top-level identifiers of tree.
Outside(tree, k) == \A i \in 1..Len(tree) : ~IsUnder(k, <<tree[i].id>>)

\* What r holds outside the subtrees of the top-level identifiers of tree.
Rest(r, tree) ==
    [keys |-> {k \in r.keys : Outside(tree, k)},
     vals |-> {v \in r.vals : Outside(tree, v.key)}]

\* C20: an install, running, ended with success or failed, has created, deleted
\* and modified nothing outside the subtrees of the top-level identifiers of
\* its tree: an entry of an earlier run that the tree no longer names is as
\* it was.
C20_Frame == Rest(reg, proc[1].tree) = Rest(hist.reg0, proc[1].tree)

\* C20 witness: the second run has ended, on a manifest that no longer names
\* the entry b of the first, with the entry z of another program in place.
C20_Witness ==
    /\ Ended(1)
    /\ hist.prev.valid
    /\ hist.prev.tree = TreeMixed
    /\ proc[1].tree = TreeItem
    /\ NodeInstalled(reg, <<"b">>, ItemPlain)
    /\ <<"z", "command">> \in reg.keys

-----------------------------------------------------------------------------
(* The lost race                                                           *)

\* C18 as claimed: when another agent removes path, or an enumerated child,
\* after erase(path) has opened it and before the delete, not-found is taken
\* for success: the erase does not fail, and returns with path absent.
C18_LostRace ==
    /\ [](hist.raced # {} => proc[1].status # "err")
    /\ [][ErasedWithSuccess => Under(reg', AbsPath(Top(proc[1].stack))) = {}]_vars

\* An erase of process 1 is at OpenKey or DeleteKey for a key that is gone,
\* through a handle that is still good.
AtGoneKey ==
    /\ At(1, "del", {"open", "delete"})
    /\ Top(proc[1].stack).k.live
    /\ AbsPath(Top(proc[1].stack)) \notin reg.keys

\* C18, amended: when another agent has removed path by the time the erase,
\* its handle on path closed, attempts the delete (or has removed an enumerated
\* child by the time it is opened or deleted), the not-found answer is taken
\* for success: erase(path) returns success, path is absent, the registry is
\* left as it is.  (A removal while the erase holds the key open makes the
\* next call through the handle fail, and the erase with it.)
C18_NotFoundIsSuccess ==
    [][(AtGoneKey /\ hist'.raced = hist.raced) =>
          /\ ErasedWithSuccess
          /\ proc'[1].err = nil
          /\ reg' = reg
          /\ Under(reg', AbsPath(Top(proc[1].stack))) = {}]_vars

\* C18 witness: the install has succeeded although the DeleteKey of an erase
\* found the key removed by the other agent.
C18_Witness ==
    /\ proc[1].status = "ok"
    /\ hist.raced # {}
    /\ hist.raced \subseteq hist.lost

\* The removal that is not tolerated: the run has failed on the handle of a
\* key the other agent removed.
C18_KeyDeleted ==
    /\ proc[1].status = "err"
    /\ hist.raced # {}
    /\ proc[1].err[Len(proc[1].err)].msg = "ERROR_KEY_DELETED"

=============================================================================
